---- MODULE Spec2Model ----
(***************************************************************************)
(* tkVideoUtils, classes VideoPlayer and VideoRecorder                     *)
(* (src/tkvideoutils/tkvideoutils.py).  The recorder has its own section. *)
(*                                                                         *)
(* Processes: the control thread (the Tk main loop, which calls play,      *)
(* stop_playing, load_frame, the skips and set_clip/clear_clip), the video *)
(* loader thread (__load_video), the audio loader thread                   *)
(* (__load_audio_thread), and per play() one display-advance thread        *)
(* (__playing_thread) and, with audio, one audio-emit thread               *)
(* (__audio_thread).                                                       *)
(*                                                                         *)
(* Granularity: a control call is one step, except stop_playing, whose     *)
(* wait loop is a position of the control thread.  A worker thread is      *)
(* split where it sleeps or where another thread can observe it between    *)
(* two of its writes (append / publish of the loader, the 10 ms sleep      *)
(* between the two halves of the display loop's epilogue).                 *)
(*                                                                         *)
(* Indices are Python's: frames[i] with -len <= i < 0 reads from the end,  *)
(* anything outside -len .. len-1 raises IndexError.                       *)
(***************************************************************************)
EXTENDS Integers, Sequences, FiniteSets, TLC

\* ------------------------------------------------------------- bounds
\* Number of images the decoder yields; also the frame count cv2 reports.
NFrames == 3
\* Number of chunks in the extracted wav file.
NChunks == 2
\* Display-advance / audio-emit threads that can exist at the same time.
MaxThreads == 2
\* play() calls whose threads exist at the same time, where sessions are not
\* meant to overlap.
MaxSessions == 1
\* int(skip_size * fps): frames moved by one skip.
SkipFrames == 2
\* Largest clip start passed to set_clip.
MaxClip == 1
\* Frames the camera, and chunks the microphone, deliver to a VideoRecorder.
MaxCapture == 2
\* Writers a VideoRecorder opens (calls of start_recording).
MaxWriters == 2

\* ------------------------------------------------------ program values
\* Python's None for start_frame / clip_frame, and "no frame on the label".
None == -1000

Slots == 1..MaxThreads
\* load_frame targets: the slider's 1..nframes, and the out-of-range
\* integers next to it.
Targets == (-1)..(NFrames + 1)
\* set_clip arguments: the one-frame clips [s, s+1).
Clips == {<<s, s + 1>> : s \in 1..MaxClip}

\* list.__getitem__: is index idx inside a list of length len, and which
\* 0-based element does it name.
PyValid(idx, len) == idx >= -len /\ idx < len
PyAt(idx, len) == IF idx >= 0 THEN idx ELSE len + idx

\* int(a / b) for b > 0: truncation toward zero.
PyIntDiv(a, b) == IF a >= 0 THEN a \div b ELSE -((-a) \div b)

VARIABLES
    \* VideoPlayer fields
    frames,                 \* list of stored frames (source image numbers)
    load_frame_index,
    loading,
    load_video_thread_live,
    current_frame,
    shown,                  \* label.image: 0-based index into frames, or None
    playing,
    play_audio,
    video_thread_live,
    audio_thread_live,
    skip_forward,
    skip_backward,
    start_frame,
    clip_frame,
    audio_loaded,
    audio_data,             \* len(audio_data), or None while the attribute is unset
    audio_index,
    audio_loading,
    slider,                 \* type(self.slider): "TickScale" | "Scale"
    button,                 \* the image on play_button: "play" | "pause"
    \* positions
    mpc,                    \* control thread: "idle" | "stop_wait"
    lpc,                    \* __load_video: "spawned" | "iter" | "appended" | "done"
    lk,                     \* images the loader has taken from the decoder
    alpc,                   \* __load_audio_thread: "spawned" | "reading" | "done"
    vpc,                    \* __playing_thread per slot
    vi,                     \* its local i
    apc,                    \* __audio_thread per slot
    alast,                  \* index of the chunk it wrote last, or None
    \* history
    cancelAt,               \* len(frames) when the loading flag was first cleared from
                            \* outside the loader, or None
    decode_error,           \* "none" | "frame" | "iterator": how decoding failed
    stopped,                \* stop_playing() returned and play() was not called since
    resumeAt,               \* the position pause_video() returned at when
                            \* play_video() was the next step, the loader had
                            \* finished and no display-advance thread was left,
                            \* until a frame is rendered or the position or the
                            \* clip range is set by a call; None otherwise
    clipAtPlay,             \* the last play() found the clip range that is set now
                            \* with its start frame loaded, and no load_frame or
                            \* skip was called since
    ev,                     \* the step just taken, with the values it started from
    \* VideoRecorder
    rec,                    \* the object's fields: playing, recording, writer,
                            \* cam_thread_live, mic_thread_live, mic_data
    writers,                \* the writers get_writer returned: "open" | "closed"
    disk,                   \* the files at video_output and audio_output: what
                            \* was written to each, or NoFile while it does not exist
    cam_pc,                 \* __video_recording_thread per slot:
                            \* "free" | "spawned" | "loop" | "done"
    mic_pc,                 \* __audio_recording_thread per slot: the same positions
    cam_k,                  \* frames the camera has delivered
    mic_k,                  \* chunks the microphone has delivered
    rmpc,                   \* the recorder's control thread: "idle" | "merge_wait"
    \* history
    armed,                  \* the frames and chunks of this capture session that
                            \* were captured while recording was set
    alternating,            \* the session began with recording clear and every
                            \* start_recording() in it was called with recording clear
    rev                     \* the recorder step just taken

vars == <<frames, load_frame_index, loading, load_video_thread_live, current_frame,
          shown, playing, play_audio, video_thread_live, audio_thread_live,
          skip_forward, skip_backward, start_frame, clip_frame, audio_loaded,
          audio_data, audio_index, audio_loading, slider, button, mpc, lpc, lk, alpc, vpc,
          vi, apc, alast, cancelAt, decode_error, stopped, resumeAt, clipAtPlay, ev,
          rec, writers, disk, cam_pc, mic_pc, cam_k, mic_k, rmpc, armed, alternating, rev>>

nframes == NFrames

\* kind: the call, the frame access or the chunk write just made; p: the
\* position the call started from (for a chunk write: the chunk the thread
\* wrote before; for a frame access: the position a pause is to resume
\* at); n: the argument of load_frame (the chunk written, the frame read);
\* raised: whether an IndexError came out of it.
NoEv == [kind |-> "none", p |-> 0, n |-> 0, raised |-> FALSE]
Ev(k, pos, n, r) == [kind |-> k, p |-> pos, n |-> n, raised |-> r]

\* A file that does not exist, where a file is the sequence of the frames
\* or chunks written to it.
NoFile == <<None>>
\* The two raw files of a VideoRecorder, both absent.
NoFiles == [video |-> NoFile, audio |-> NoFile]

\* kind: the recorder step just taken; ran: how the transcoder run ended;
\* ret: what merge_sources returned; del: its delete_file argument;
\* pre: the raw files as the call found them.
NoRev == [kind |-> "none", ran |-> "none", ret |-> FALSE, del |-> FALSE, pre |-> NoFiles]
RevOf(k) == [NoRev EXCEPT !.kind = k]

\* VideoRecorder.__init__, lines 87-128.
RecorderInit ==
    /\ rec = [playing |-> FALSE, recording |-> FALSE, writer |-> None,
              cam_thread_live |-> FALSE, mic_thread_live |-> FALSE, mic_data |-> <<>>]
    /\ writers = <<>>
    /\ disk = NoFiles
    /\ cam_pc = [t \in Slots |-> "free"]
    /\ mic_pc = [t \in Slots |-> "free"]
    /\ cam_k = 0
    /\ mic_k = 0
    /\ rmpc = "idle"
    /\ armed = [frames |-> <<>>, chunks |-> <<>>]
    /\ alternating = TRUE
    /\ rev = NoRev

\* ------------------------------------------------------------ load_frame
\* The outcome of load_frame(n) on position cur, store length len and
\* published counter lfi: the new position, the new label image and whether
\* IndexError leaves the function.
LoadFrameOutcome(n, cur, len, lfi, img) ==
    IF n = cur
    THEN [current_frame |-> cur, shown |-> img, raised |-> FALSE]
    ELSE IF PyValid(n - 1, len)
    THEN [current_frame |-> n, shown |-> PyAt(n - 1, len), raised |-> FALSE]
    ELSE IF PyValid(lfi - 1, len)
    THEN [current_frame |-> lfi - 1, shown |-> PyAt(lfi - 1, len), raised |-> FALSE]
    ELSE [current_frame |-> cur, shown |-> img, raised |-> TRUE]

LoadFrameNow(n) ==
    LoadFrameOutcome(n, current_frame, Len(frames), load_frame_index, shown)

Init ==
    /\ frames = <<>>
    /\ load_frame_index = 0
    /\ loading = FALSE
    /\ load_video_thread_live = FALSE
    /\ current_frame = 0
    /\ shown = None
    /\ playing = FALSE
    /\ play_audio = FALSE
    /\ video_thread_live = FALSE
    /\ audio_thread_live = FALSE
    /\ skip_forward = FALSE
    /\ skip_backward = FALSE
    /\ start_frame = None
    /\ clip_frame = None
    /\ audio_loaded \in BOOLEAN
    /\ audio_data = None
    /\ audio_index = 0
    /\ audio_loading = FALSE
    /\ slider \in {"TickScale", "Scale"}
    /\ button = "play"
    /\ mpc = "idle"
    /\ lpc = "spawned"
    /\ lk = 0
    /\ alpc = IF audio_loaded THEN "spawned" ELSE "done"
    /\ vpc = [t \in Slots |-> "free"]
    /\ vi = [t \in Slots |-> 0]
    /\ apc = [t \in Slots |-> "free"]
    /\ alast = [t \in Slots |-> None]
    /\ cancelAt = None
    /\ decode_error = "none"
    /\ stopped = FALSE
    /\ resumeAt = None
    /\ clipAtPlay = FALSE
    /\ ev = NoEv
    /\ RecorderInit

\* ------------------------------------------------------------ __load_video
LoaderVars == <<frames, load_frame_index, loading, load_video_thread_live, lpc, lk,
                cancelAt, decode_error>>
PlayerVars == <<playing, play_audio, video_thread_live, audio_thread_live,
                skip_forward, skip_backward, vpc, vi, apc, alast>>
ClipVars == <<start_frame, clip_frame, clipAtPlay, resumeAt>>
AudioVars == <<audio_loaded, audio_data, audio_index, audio_loading, alpc>>
\* Set by the constructor and never written again.
Config == <<slider, button>>
\* The state of a VideoRecorder, which no step of a VideoPlayer touches.
Recorder == <<rec, writers, disk, cam_pc, mic_pc, cam_k, mic_k, rmpc, armed, alternating, rev>>

\* Lines 621-626.
LoaderStart ==
    /\ lpc = "spawned"
    /\ loading' = TRUE
    /\ load_video_thread_live' = TRUE
    /\ load_frame_index' = 0
    /\ lpc' = "iter"
    /\ ev' = NoEv
    /\ UNCHANGED <<frames, lk, current_frame, shown, mpc, stopped, cancelAt, decode_error>>
    /\ UNCHANGED <<PlayerVars, ClipVars, AudioVars, Config, Recorder>>

\* Stored with the new image put in the place of the last stored one.
StoredInPlace(fr, img) == IF fr = <<>> THEN <<img>> ELSE [fr EXCEPT ![Len(fr)] = img]

\* Line 637: frames.append(resized_image).
Stored(fr, img) == Append(fr, img)

\* Lines 627-637 and 656-657: the next image of the decoder. The image is
\* dropped when it equals the previous kept one (dup), appended otherwise.
LoaderIter ==
    /\ lpc = "iter"
    /\ ev' = NoEv
    /\ UNCHANGED <<load_frame_index, loading, current_frame, shown, mpc, stopped,
                   cancelAt, decode_error>>
    /\ UNCHANGED <<PlayerVars, ClipVars, AudioVars, Config, Recorder>>
    /\ IF lk = NFrames \/ ~loading
       THEN /\ load_video_thread_live' = FALSE
            /\ lpc' = "done"
            /\ UNCHANGED <<frames, lk>>
       ELSE \E dup \in BOOLEAN :
            /\ dup => frames # <<>>
            /\ lk' = lk + 1
            /\ load_video_thread_live' = load_video_thread_live
            /\ IF dup
               THEN lpc' = "iter" /\ frames' = frames
               ELSE lpc' = "appended" /\ frames' = Stored(frames, lk + 1)

\* Lines 638-649: publish the appended frame; without audio the first frame
\* is put on the label by load_frame(1); then the progress indicator: every
\* count that is not a multiple of 10 repaints a TickScale while loading is
\* set, and with any other slider, or with loading cleared, the loader
\* returns.
LoaderPublish ==
    /\ lpc = "appended"
    /\ load_frame_index' = load_frame_index + 1
    /\ ev' = NoEv
    /\ LET r == LoadFrameOutcome(1, current_frame, Len(frames), load_frame_index + 1, shown)
       IN  IF ~audio_loaded /\ load_frame_index + 1 = 1
           THEN current_frame' = r.current_frame /\ shown' = r.shown
           ELSE UNCHANGED <<current_frame, shown>>
    /\ IF (load_frame_index + 1) % 10 # 0 /\ ~(slider = "TickScale" /\ loading)
       THEN lpc' = "done" /\ load_video_thread_live' = FALSE
       ELSE lpc' = "iter" /\ load_video_thread_live' = load_video_thread_live
    /\ UNCHANGED <<frames, loading, lk, mpc, stopped, cancelAt, decode_error>>
    /\ UNCHANGED <<PlayerVars, ClipVars, AudioVars, Config, Recorder>>

\* The two ways decoding fails. "iterator": imageio.get_reader or the
\* iterator of line 627 raises, which only the handler of lines 658-660
\* catches: it prints and returns. "frame": converting the decoded image
\* raises inside the try of line 633, after the loading test of line 628,
\* and the handlers of lines 650-655 clear the live flag and return.
LoaderDecodeError(kind) ==
    /\ lpc = "iter"
    /\ lk < NFrames
    /\ kind = "frame" => loading
    /\ decode_error' = kind
    /\ lpc' = "done"
    /\ load_video_thread_live' = IF kind = "frame" THEN FALSE ELSE load_video_thread_live
    /\ ev' = NoEv
    /\ UNCHANGED <<frames, load_frame_index, loading, lk, cancelAt, current_frame, shown,
                   mpc, stopped>>
    /\ UNCHANGED <<PlayerVars, ClipVars, AudioVars, Config, Recorder>>

\* ------------------------------------------------------ __load_audio_thread
\* Lines 796-806: extract the track (ok: whether moviepy succeeds), put the
\* first frame on the label, open the wav file and the output stream, and
\* create audio_data. An exception anywhere ends the thread (line 820).
AudioLoaderPrepare ==
    /\ alpc = "spawned"
    /\ ev' = NoEv
    /\ \E ok \in BOOLEAN :
        LET r == LoadFrameNow(1)
        IN  IF ok /\ ~r.raised
            THEN /\ current_frame' = r.current_frame
                 /\ shown' = r.shown
                 /\ audio_data' = 0
                 /\ audio_loading' = TRUE
                 /\ alpc' = "reading"
            ELSE /\ alpc' = "done"
                 /\ UNCHANGED <<current_frame, shown, audio_data, audio_loading>>
    /\ UNCHANGED <<audio_loaded, audio_index, mpc, stopped>>
    /\ UNCHANGED <<LoaderVars, PlayerVars, ClipVars, Config, Recorder>>

\* Lines 807-817: one pass of the read loop; an empty read, or
\* audio_loading found cleared, ends the loop and the thread.
AudioLoaderRead ==
    /\ alpc = "reading"
    /\ ev' = NoEv
    /\ IF audio_loading /\ audio_data < NChunks
       THEN audio_data' = audio_data + 1 /\ alpc' = alpc /\ audio_loading' = audio_loading
       ELSE audio_data' = audio_data /\ alpc' = "done" /\ audio_loading' = FALSE
    /\ UNCHANGED <<audio_loaded, audio_index, current_frame, shown, mpc, stopped>>
    /\ UNCHANGED <<LoaderVars, PlayerVars, ClipVars, Config, Recorder>>

\* ------------------------------------------------------------ control calls
FreeV == {t \in Slots : vpc[t] = "free"}
FreeA == {t \in Slots : apc[t] = "free"}
Lowest(S) == CHOOSE t \in S : \A u \in S : t <= u

\* play(), lines 928-932: the position the new session starts from.
PlayPosition(cur, start) ==
    IF start # None THEN start
    ELSE IF cur = nframes - 1 THEN 0
    ELSE cur

\* play(), lines 928-939, called while fewer than cap display-advance
\* threads and fewer than cap audio-emit threads of earlier calls exist.
PlayWithin(cap) ==
    /\ mpc = "idle"
    /\ Cardinality(Slots \ FreeV) < cap
    /\ audio_loaded => Cardinality(Slots \ FreeA) < cap
    /\ playing' = TRUE
    /\ current_frame' = PlayPosition(current_frame, start_frame)
    /\ vpc' = [vpc EXCEPT ![Lowest(FreeV)] = "spawned"]
    /\ apc' = IF audio_loaded THEN [apc EXCEPT ![Lowest(FreeA)] = "spawned"] ELSE apc
    /\ stopped' = FALSE
    /\ clipAtPlay' = (start_frame # None /\ clip_frame # None
                        /\ start_frame < load_frame_index)
    /\ ev' = Ev("play", current_frame, 0, FALSE)
    /\ UNCHANGED <<shown, play_audio, video_thread_live, audio_thread_live,
                   skip_forward, skip_backward, vi, alast, start_frame, clip_frame>>
    /\ UNCHANGED <<LoaderVars, AudioVars, slider, Recorder>>

\* play() once the threads of the previous call are gone.
Play == PlayWithin(MaxSessions) /\ UNCHANGED <<mpc, button, resumeAt>>

\* play_video(), lines 667-670: play() unless playing is set, also while
\* threads of earlier calls exist, and the pause image on the button.
PlayVideo ==
    /\ ~playing
    /\ PlayWithin(MaxThreads)
    /\ button' = "pause"
    /\ UNCHANGED <<mpc, resumeAt>>

\* stop_playing(), lines 735-738.
StopBegin ==
    /\ mpc = "idle"
    /\ playing' = FALSE
    /\ play_audio' = FALSE
    /\ mpc' = "stop_wait"
    /\ ev' = NoEv
    /\ UNCHANGED <<current_frame, shown, stopped, video_thread_live, audio_thread_live,
                   skip_forward, skip_backward, vpc, vi, apc, alast>>
    /\ UNCHANGED <<LoaderVars, ClipVars, AudioVars, Config, Recorder>>

\* stop_playing(), lines 739-740: the wait loop is left when both flags are
\* false, and the call returns.
StopReturn ==
    /\ mpc = "stop_wait"
    /\ ~(audio_thread_live \/ video_thread_live)
    /\ mpc' = "idle"
    /\ stopped' = TRUE
    /\ ev' = NoEv
    /\ UNCHANGED <<current_frame, shown>>
    /\ UNCHANGED <<LoaderVars, PlayerVars, ClipVars, AudioVars, Config, Recorder>>

\* play_video() up to the return of play(), lines 667-668.
PlayVideoCall ==
    /\ ~playing
    /\ PlayWithin(MaxThreads)
    /\ mpc' = "play_video"
    /\ resumeAt' = IF ev.kind = "pause_video" /\ lpc = "done" /\ FreeV = Slots
                   THEN ev.p ELSE None
    /\ UNCHANGED button

\* play_video(), lines 669-670: the pause image on the button.
PlayVideoButton ==
    /\ mpc = "play_video"
    /\ mpc' = "idle"
    /\ button' = "pause"
    /\ ev' = NoEv
    /\ UNCHANGED <<current_frame, shown, stopped, slider>>
    /\ UNCHANGED <<LoaderVars, PlayerVars, ClipVars, AudioVars, Recorder>>

\* pause_video() up to the wait loop of stop_playing(), lines 677-678 and
\* 735-738.
PauseBegin ==
    /\ mpc = "idle"
    /\ playing
    /\ playing' = FALSE
    /\ play_audio' = FALSE
    /\ mpc' = "pause_wait"
    /\ ev' = NoEv
    /\ UNCHANGED <<current_frame, shown, stopped, video_thread_live, audio_thread_live,
                   skip_forward, skip_backward, vpc, vi, apc, alast>>
    /\ UNCHANGED <<LoaderVars, ClipVars, AudioVars, Config, Recorder>>

\* pause_video() from the end of the wait loop, lines 739-740 and 679-680:
\* the play image on the button.
PauseReturn ==
    /\ mpc = "pause_wait"
    /\ ~(audio_thread_live \/ video_thread_live)
    /\ mpc' = "idle"
    /\ button' = "play"
    /\ stopped' = TRUE
    /\ resumeAt' = None
    /\ ev' = Ev("pause_video", current_frame, 0, FALSE)
    /\ UNCHANGED <<current_frame, shown, slider, start_frame, clip_frame, clipAtPlay>>
    /\ UNCHANGED <<LoaderVars, PlayerVars, AudioVars, Recorder>>

\* load_frame(n), lines 706-728.
LoadFrame(n) ==
    /\ mpc = "idle"
    /\ LET r == LoadFrameNow(n)
       IN  /\ current_frame' = r.current_frame
           /\ shown' = r.shown
           /\ ev' = Ev("load_frame", current_frame, n, r.raised)
    /\ clipAtPlay' = FALSE
    /\ resumeAt' = None
    /\ UNCHANGED <<mpc, stopped, start_frame, clip_frame>>
    /\ UNCHANGED <<LoaderVars, PlayerVars, AudioVars, Config, Recorder>>

\* ForwardTarget with the clamp one too high (the count, not the last index).
ForwardTargetCountClamp(cur, lfi) ==
    IF cur + SkipFrames > lfi THEN lfi ELSE cur + SkipFrames

\* skip_video_forward(), lines 752-754: the target handed to load_frame.
ForwardTarget(cur, lfi) ==
    IF cur + SkipFrames > lfi - 1 THEN lfi - 1 ELSE cur + SkipFrames

\* BackwardTarget with the clamp at 0 instead of 1.
BackwardTargetZeroClamp(cur) ==
    IF cur - SkipFrames < 0 THEN 0 ELSE cur - SkipFrames

\* skip_video_backward(), lines 767-769.
BackwardTarget(cur) ==
    IF cur - SkipFrames < 1 THEN 1 ELSE cur - SkipFrames

\* A skip, lines 748-755 and 763-770: nothing while playing (the line that
\* would set the request flag follows the return), load_frame(target)
\* otherwise.
Skip(kind, target) ==
    /\ mpc = "idle"
    /\ LET r == LoadFrameNow(target)
       IN  IF playing
           THEN /\ UNCHANGED <<current_frame, shown>>
                /\ ev' = Ev(kind, current_frame, 0, FALSE)
           ELSE /\ current_frame' = r.current_frame
                /\ shown' = r.shown
                /\ ev' = Ev(kind, current_frame, 0, r.raised)
    /\ clipAtPlay' = FALSE
    /\ resumeAt' = None
    /\ UNCHANGED <<mpc, stopped, start_frame, clip_frame>>
    /\ UNCHANGED <<LoaderVars, PlayerVars, AudioVars, Config, Recorder>>

SkipVideoForward == Skip("skip_forward", ForwardTarget(current_frame, load_frame_index))

SkipVideoBackward == Skip("skip_backward", BackwardTarget(current_frame))

\* set_clip(start, end), lines 779-780.
SetClip(c) ==
    /\ mpc = "idle"
    /\ start_frame' = c[1]
    /\ clip_frame' = c[2]
    /\ clipAtPlay' = FALSE
    /\ resumeAt' = None
    /\ ev' = NoEv
    /\ UNCHANGED <<current_frame, shown, mpc, stopped>>
    /\ UNCHANGED <<LoaderVars, PlayerVars, AudioVars, Config, Recorder>>

\* clear_clip(), lines 787-788.
ClearClip ==
    /\ mpc = "idle"
    /\ start_frame' = None
    /\ clip_frame' = None
    /\ clipAtPlay' = FALSE
    /\ resumeAt' = None
    /\ ev' = NoEv
    /\ UNCHANGED <<current_frame, shown, mpc, stopped>>
    /\ UNCHANGED <<LoaderVars, PlayerVars, AudioVars, Config, Recorder>>

\* The first clearing of the loading flag from outside the loader.
Cancelled(at, len) == IF at = None THEN len ELSE at

\* close(), lines 946-948.
Close ==
    /\ mpc = "idle"
    /\ loading' = FALSE
    /\ playing' = FALSE
    /\ audio_loading' = FALSE
    /\ cancelAt' = Cancelled(cancelAt, Len(frames))
    /\ ev' = NoEv
    /\ UNCHANGED <<frames, load_frame_index, load_video_thread_live, lpc, lk, decode_error>>
    /\ UNCHANGED <<play_audio, video_thread_live, audio_thread_live, skip_forward,
                   skip_backward, vpc, vi, apc, alast>>
    /\ UNCHANGED <<audio_loaded, audio_data, audio_index, alpc>>
    /\ UNCHANGED <<current_frame, shown, mpc, stopped, ClipVars, Config, Recorder>>

\* The window-close handler of the example: player.loading = False.
CancelLoading ==
    /\ mpc = "idle"
    /\ loading' = FALSE
    /\ cancelAt' = Cancelled(cancelAt, Len(frames))
    /\ ev' = NoEv
    /\ UNCHANGED <<frames, load_frame_index, load_video_thread_live, lpc, lk, decode_error>>
    /\ UNCHANGED <<current_frame, shown, mpc, stopped>>
    /\ UNCHANGED <<PlayerVars, ClipVars, AudioVars, Config, Recorder>>

\* -------------------------------------------------------- __playing_thread
\* __update_audio_index, lines 855-856.
AudioIndexFor(chunks, cur) == PyIntDiv(chunks * cur, nframes)

\* Lines 864-869. With audio, len(self.audio_data) raises AttributeError
\* while the audio loader has not created the list; the handler of line 919
\* then ends the thread with the flags as they are.
PlayingStart(t) ==
    /\ vpc[t] = "spawned"
    /\ video_thread_live' = TRUE
    /\ playing' = TRUE
    /\ ev' = NoEv
    /\ IF audio_loaded /\ audio_data = None
       THEN /\ vpc' = [vpc EXCEPT ![t] = "free"]
            /\ UNCHANGED <<vi, audio_index, play_audio>>
       ELSE /\ vpc' = [vpc EXCEPT ![t] = "loop"]
            /\ vi' = [vi EXCEPT ![t] = current_frame]
            /\ audio_index' = IF audio_loaded
                               THEN AudioIndexFor(audio_data, current_frame)
                               ELSE audio_index
            /\ play_audio' = TRUE
    /\ UNCHANGED <<current_frame, shown, mpc, stopped, audio_thread_live,
                   skip_forward, skip_backward, apc, alast, audio_loaded, audio_data,
                   audio_loading, alpc>>
    /\ UNCHANGED <<LoaderVars, ClipVars, Config, Recorder>>

\* Lines 888-890: does the clip check leave the loop after frame i.
ClipBreak(i, start, clip) ==
    start # None /\ clip # None /\ ~(start <= i /\ i < clip)

\* Lines 891-898: the next i.
Advance(i, fwd, bwd) ==
    IF fwd THEN i + SkipFrames
    ELSE IF bwd THEN i - SkipFrames
    ELSE i + 1

\* Lines 870-911: one pass of the while loop, up to its sleep; a pass that
\* leaves the loop runs on to line 911 and the sleep of line 912.
PlayingTick(t) ==
    /\ vpc[t] = "loop"
    /\ LET i == vi[t]
           len == Len(frames)
       IN  IF ~(i < nframes) \/ ~playing
           THEN \* the loop ends, or breaks at line 872; line 911
                /\ vpc' = [vpc EXCEPT ![t] = "tail"]
                /\ video_thread_live' = FALSE
                /\ ev' = NoEv
                /\ UNCHANGED <<vi, current_frame, shown, playing, skip_forward, skip_backward,
                               resumeAt>>
           ELSE IF ~(i < load_frame_index)
           THEN \* line 901
                /\ vi' = [vi EXCEPT ![t] = load_frame_index - 1]
                /\ ev' = NoEv
                /\ UNCHANGED <<vpc, current_frame, shown, playing, skip_forward,
                               skip_backward, video_thread_live, resumeAt>>
           ELSE IF ~PyValid(i, len)
           THEN \* frames[i] raises IndexError: lines 905-910, then line 919
                /\ playing' = FALSE
                /\ vpc' = [vpc EXCEPT ![t] = "free"]
                /\ vi' = [vi EXCEPT ![t] = 0]
                /\ ev' = Ev("frame_read", resumeAt, 0, TRUE)
                /\ resumeAt' = None
                /\ UNCHANGED <<current_frame, shown, skip_forward, skip_backward,
                               video_thread_live>>
           ELSE \* lines 875-899
                /\ current_frame' = i
                /\ shown' = PyAt(i, len)
                /\ ev' = Ev("frame_read", resumeAt, i, FALSE)
                /\ resumeAt' = None
                /\ playing' = playing
                /\ IF ClipBreak(i, start_frame, clip_frame)
                   THEN \* break at line 890; line 911
                        /\ vpc' = [vpc EXCEPT ![t] = "tail"]
                        /\ video_thread_live' = FALSE
                        /\ UNCHANGED <<vi, skip_forward, skip_backward>>
                   ELSE /\ vi' = [vi EXCEPT ![t] = Advance(i, skip_forward, skip_backward)]
                        /\ skip_forward' = FALSE
                        /\ skip_backward' = (~skip_forward /\ skip_backward)
                        /\ UNCHANGED <<vpc, video_thread_live>>
    /\ UNCHANGED <<mpc, stopped, play_audio, audio_thread_live, apc, alast>>
    /\ UNCHANGED <<LoaderVars, start_frame, clip_frame, clipAtPlay, AudioVars, Config,
                   Recorder>>

\* Lines 913-918, after the sleep of line 912; a player has its play button.
PlayingEpilogue(t) ==
    /\ vpc[t] = "tail"
    /\ playing' = FALSE
    /\ play_audio' = FALSE
    /\ current_frame' = IF current_frame > nframes THEN nframes ELSE current_frame
    /\ vpc' = [vpc EXCEPT ![t] = "free"]
    /\ vi' = [vi EXCEPT ![t] = 0]
    /\ button' = "play"
    /\ ev' = NoEv
    /\ UNCHANGED <<shown, mpc, stopped, video_thread_live, audio_thread_live,
                   skip_forward, skip_backward, apc, alast>>
    /\ UNCHANGED <<LoaderVars, ClipVars, AudioVars, slider, Recorder>>

\* ---------------------------------------------------------- __audio_thread
\* Line 830.
AudioStart(t) ==
    /\ apc[t] = "spawned"
    /\ audio_thread_live' = TRUE
    /\ apc' = [apc EXCEPT ![t] = "loop"]
    /\ ev' = NoEv
    /\ UNCHANGED <<current_frame, shown, mpc, stopped, playing, play_audio,
                   video_thread_live, skip_forward, skip_backward, vpc, vi, alast>>
    /\ UNCHANGED <<LoaderVars, ClipVars, AudioVars, Config, Recorder>>

\* Lines 832-845: one evaluation of the while condition and the pass or the
\* exit that follows. Without audio_data the condition raises
\* AttributeError, which line 844 catches after the flag's reset was skipped.
AudioTick(t) ==
    /\ apc[t] = "loop"
    /\ IF audio_data = None
       THEN /\ apc' = [apc EXCEPT ![t] = "free"]
            /\ alast' = [alast EXCEPT ![t] = None]
            /\ ev' = NoEv
            /\ UNCHANGED <<audio_index, play_audio, audio_thread_live>>
       ELSE IF audio_index < audio_data - 1 /\ playing
       THEN /\ apc' = apc
            /\ IF play_audio
               THEN \* lines 835-836: the chunk at audio_index is written
                    /\ audio_index' = audio_index + 1
                    /\ alast' = [alast EXCEPT ![t] = audio_index]
                    /\ ev' = Ev("audio_write", alast[t], audio_index, FALSE)
               ELSE /\ ev' = NoEv
                    /\ UNCHANGED <<audio_index, alast>>
            /\ UNCHANGED <<play_audio, audio_thread_live>>
       ELSE /\ apc' = [apc EXCEPT ![t] = "free"]
            /\ alast' = [alast EXCEPT ![t] = None]
            /\ ev' = NoEv
            /\ play_audio' = FALSE
            /\ audio_thread_live' = FALSE
            /\ UNCHANGED audio_index
    /\ UNCHANGED <<current_frame, shown, mpc, stopped, playing, video_thread_live,
                   skip_forward, skip_backward, vpc, vi, audio_loaded, audio_data,
                   audio_loading, alpc>>
    /\ UNCHANGED <<LoaderVars, ClipVars, Config, Recorder>>

\* The steps of a player, the audio loader and the audio-emit threads aside.
VideoNext ==
    \/ LoaderStart
    \/ LoaderIter
    \/ LoaderPublish
    \/ Play
    \/ StopBegin
    \/ StopReturn
    \/ \E n \in Targets : LoadFrame(n)
    \/ SkipVideoForward
    \/ SkipVideoBackward
    \/ \E c \in Clips : SetClip(c)
    \/ ClearClip
    \/ \E t \in Slots : PlayingStart(t)
    \/ \E t \in Slots : PlayingTick(t)
    \/ \E t \in Slots : PlayingEpilogue(t)

Next ==
    \/ VideoNext
    \/ AudioLoaderPrepare
    \/ AudioLoaderRead
    \/ \E t \in Slots : AudioStart(t)
    \/ \E t \in Slots : AudioTick(t)

\* A player of any source.
Spec == Init /\ [][Next]_vars

\* A player of a source without an audio track (lines 441-444 clear
\* audio_loaded): no audio loader and no audio-emit thread is ever started.
InitVideo == Init /\ ~audio_loaded

SpecVideo == InitVideo /\ [][VideoNext]_vars

\* The video loader with everything that ends it early: a decode error,
\* close() and the example's window-close handler; with the seeks of the
\* control thread, which read what the loader stores.
LoadNext ==
    \/ LoaderStart
    \/ LoaderIter
    \/ LoaderPublish
    \/ \E kind \in {"frame", "iterator"} : LoaderDecodeError(kind)
    \/ Close
    \/ CancelLoading
    \/ \E n \in Targets : LoadFrame(n)

SpecLoad == Init /\ [][LoadNext]_vars

\* A player of a source with audio that is started with play_video() and
\* stopped with stop_playing() at any moment, also while threads of an
\* earlier play() exist.
InitAudio == Init /\ audio_loaded /\ slider = "TickScale"

AudioNext ==
    \/ LoaderStart
    \/ LoaderIter
    \/ LoaderPublish
    \/ AudioLoaderPrepare
    \/ AudioLoaderRead
    \/ PlayVideo
    \/ StopBegin
    \/ StopReturn
    \/ \E t \in Slots : PlayingStart(t)
    \/ \E t \in Slots : PlayingTick(t)
    \/ \E t \in Slots : PlayingEpilogue(t)
    \/ \E t \in Slots : AudioStart(t)
    \/ \E t \in Slots : AudioTick(t)

SpecAudio == InitAudio /\ [][AudioNext]_vars

\* play() called once the audio loader has ended.
PlayAfterAudioLoader == alpc = "done" /\ Play

\* A player of a source with audio whose audio loader succeeds or fails,
\* and which is played and stopped only after that loader has ended.
AudioFailNext ==
    \/ LoaderStart
    \/ LoaderIter
    \/ LoaderPublish
    \/ AudioLoaderPrepare
    \/ AudioLoaderRead
    \/ PlayAfterAudioLoader
    \/ StopBegin
    \/ StopReturn
    \/ \E t \in Slots : PlayingStart(t)
    \/ \E t \in Slots : PlayingTick(t)
    \/ \E t \in Slots : PlayingEpilogue(t)
    \/ \E t \in Slots : AudioStart(t)
    \/ \E t \in Slots : AudioTick(t)

SpecAudioFail == InitAudio /\ [][AudioFailNext]_vars

\* A clip range with frames strictly inside it: all frames but the last.
PauseClips == {<<0, NFrames - 1>>}

\* A player without audio that is driven by its play button: play_video()
\* and pause_video() at any moment, with or without a clip range.
PauseNext ==
    \/ LoaderStart
    \/ LoaderIter
    \/ LoaderPublish
    \/ PlayVideoCall
    \/ PlayVideoButton
    \/ PauseBegin
    \/ PauseReturn
    \/ \E c \in PauseClips : SetClip(c)
    \/ ClearClip
    \/ \E t \in Slots : PlayingStart(t)
    \/ \E t \in Slots : PlayingTick(t)
    \/ \E t \in Slots : PlayingEpilogue(t)

InitPause == Init /\ ~audio_loaded /\ slider = "TickScale"

SpecPause == InitPause /\ [][PauseNext]_vars

\* play_video() called once the video loader has ended.
PlayVideoLoaded == lpc = "done" /\ PlayVideoCall

\* A player without audio whose play button is used only after the loader
\* has ended.
ButtonNext ==
    \/ LoaderStart
    \/ LoaderIter
    \/ LoaderPublish
    \/ PlayVideoLoaded
    \/ PlayVideoButton
    \/ PauseBegin
    \/ PauseReturn
    \/ \E c \in PauseClips : SetClip(c)
    \/ ClearClip
    \/ \E t \in Slots : PlayingStart(t)
    \/ \E t \in Slots : PlayingTick(t)
    \/ \E t \in Slots : PlayingEpilogue(t)

SpecButton == InitPause /\ [][ButtonNext]_vars

\* A player without audio and without a clip range that is only told to
\* play, while or after its loader runs.
EndNext ==
    \/ LoaderStart
    \/ LoaderIter
    \/ LoaderPublish
    \/ Play
    \/ \E t \in Slots : PlayingStart(t)
    \/ \E t \in Slots : PlayingTick(t)
    \/ \E t \in Slots : PlayingEpilogue(t)

\* Both threads are daemon threads the interpreter keeps scheduling: a
\* step of the loader or of the display-advance thread that stays possible
\* is eventually taken.
EndFairness ==
    /\ WF_vars(LoaderStart)
    /\ WF_vars(LoaderIter)
    /\ WF_vars(LoaderPublish)
    /\ WF_vars(\E t \in Slots : PlayingStart(t))
    /\ WF_vars(\E t \in Slots : PlayingTick(t))
    /\ WF_vars(\E t \in Slots : PlayingEpilogue(t))

SpecEnd == InitVideo /\ [][EndNext]_vars /\ EndFairness

\* A player of a source with audio that is closed at some moment while its
\* two loaders run, or after them.
AudioCloseNext ==
    \/ LoaderStart
    \/ LoaderIter
    \/ LoaderPublish
    \/ AudioLoaderPrepare
    \/ AudioLoaderRead
    \/ Close

SpecAudioClose == InitAudio /\ [][AudioCloseNext]_vars

\* ====================================================== class VideoRecorder
\* Processes: the control thread (start_playback, stop_playback,
\* start_recording, stop_recording, merge_sources), the video capture thread
\* (__video_recording_thread) and the audio capture thread
\* (__audio_recording_thread).  The display thread of start_playback only
\* copies cam_frame to the label and is left out.  A capture tick is one
\* step; the teardown after a capture loop is one step; merge_sources is a
\* position of the control thread while it waits for the two live flags.
\* The camera numbers its frames and the microphone its chunks 1, 2, ...

\* Everything of a VideoPlayer, which no step of a VideoRecorder touches.
Player == <<LoaderVars, PlayerVars, ClipVars, AudioVars, Config, current_frame, shown,
            mpc, stopped, ev>>

\* The slots whose capture thread exists.
CamRunning == {t \in Slots : cam_pc[t] \in {"spawned", "loop"}}
MicRunning == {t \in Slots : mic_pc[t] \in {"spawned", "loop"}}

\* start_playback(), lines 367-379, called while fewer than cap capture
\* threads of each kind exist.
StartPlaybackWithin(cap) ==
    /\ rmpc = "idle"
    /\ Cardinality(CamRunning) < cap
    /\ Cardinality(MicRunning) < cap
    /\ rec' = [rec EXCEPT !.playing = TRUE]
    /\ cam_pc' = [cam_pc EXCEPT ![Lowest(Slots \ CamRunning)] = "spawned"]
    /\ mic_pc' = [mic_pc EXCEPT ![Lowest(Slots \ MicRunning)] = "spawned"]
    /\ armed' = [frames |-> <<>>, chunks |-> <<>>]
    /\ alternating' = ~rec.recording
    /\ rev' = RevOf("start_playback")
    /\ UNCHANGED <<writers, disk, cam_k, mic_k, rmpc, Player>>

\* start_playback() once the capture threads of the previous session are
\* gone.
StartPlayback == StartPlaybackWithin(MaxSessions)

\* start_playback() at any moment, also while capture threads of an earlier
\* session exist.
StartPlaybackAnytime == StartPlaybackWithin(MaxThreads)

\* stop_playback(), line 360.
StopPlayback ==
    /\ rmpc = "idle"
    /\ rec' = [rec EXCEPT !.playing = FALSE]
    /\ rev' = RevOf("stop_playback")
    /\ UNCHANGED <<writers, disk, cam_pc, mic_pc, cam_k, mic_k, rmpc, armed, alternating, Player>>

\* start_recording() without arguments, lines 343-346: get_writer opens the
\* file at video_output for writing, the writer held before is dropped as
\* it is.
StartRecording ==
    /\ rmpc = "idle"
    /\ Len(writers) < MaxWriters
    /\ writers' = Append(writers, "open")
    /\ disk' = [disk EXCEPT !.video = <<>>]
    /\ rec' = [rec EXCEPT !.writer = Len(writers) + 1, !.recording = TRUE]
    /\ alternating' = (alternating /\ ~rec.recording)
    /\ rev' = RevOf("start_recording")
    /\ UNCHANGED <<cam_pc, mic_pc, cam_k, mic_k, rmpc, armed, Player>>

\* stop_recording(), line 353.
StopRecording ==
    /\ rmpc = "idle"
    /\ rec' = [rec EXCEPT !.recording = FALSE]
    /\ rev' = RevOf("stop_recording")
    /\ UNCHANGED <<writers, disk, cam_pc, mic_pc, cam_k, mic_k, rmpc, armed, alternating, Player>>

\* __video_recording_thread, line 248.
CamStart(t) ==
    /\ cam_pc[t] = "spawned"
    /\ cam_pc' = [cam_pc EXCEPT ![t] = "loop"]
    /\ rec' = [rec EXCEPT !.cam_thread_live = TRUE]
    /\ rev' = RevOf("cam_start")
    /\ UNCHANGED <<writers, disk, mic_pc, cam_k, mic_k, rmpc, armed, alternating, Player>>

\* One pass of its loop, lines 249-263: the next camera frame, appended to
\* the writer when recording is set.  Appending to a closed writer raises,
\* which line 260 catches.
CamTick(t) ==
    /\ cam_pc[t] = "loop"
    /\ rec.playing
    /\ cam_k < MaxCapture
    /\ cam_k' = cam_k + 1
    /\ IF rec.recording
       THEN /\ armed' = [armed EXCEPT !.frames = Append(@, cam_k + 1)]
            /\ IF writers[rec.writer] = "open"
               THEN /\ disk' = [disk EXCEPT !.video =
                                   IF @ = NoFile THEN NoFile ELSE Append(@, cam_k + 1)]
                    /\ rev' = RevOf("append_data")
               ELSE /\ rev' = RevOf("append_failed")
                    /\ UNCHANGED disk
       ELSE /\ rev' = RevOf("cam_frame")
            /\ UNCHANGED <<armed, disk>>
    /\ UNCHANGED <<rec, writers, cam_pc, mic_pc, mic_k, rmpc, alternating, Player>>

\* A pass of the loop in which cam.get_next_data() raises, line 252: a
\* single failed read ("transient") or the device being gone
\* ("disconnected"); line 260 catches either and the loop goes on.
CamReadError(t, kind) ==
    /\ cam_pc[t] = "loop"
    /\ rec.playing
    /\ rev' = RevOf(IF kind = "transient" THEN "cam_read_failed" ELSE "cam_disconnected")
    /\ UNCHANGED <<rec, writers, disk, cam_pc, mic_pc, cam_k, mic_k, rmpc, armed,
                   alternating, Player>>

\* After the loop, lines 264-267: the writer held now is closed, then the
\* camera, then the live flag is cleared.
CamExit(t) ==
    /\ cam_pc[t] = "loop"
    /\ ~rec.playing
    /\ writers' = IF rec.writer = None THEN writers
                  ELSE [writers EXCEPT ![rec.writer] = "closed"]
    /\ rec' = [rec EXCEPT !.cam_thread_live = FALSE]
    /\ cam_pc' = [cam_pc EXCEPT ![t] = "done"]
    /\ rev' = RevOf("cam_exit")
    /\ UNCHANGED <<disk, mic_pc, cam_k, mic_k, rmpc, armed, alternating, Player>>

\* __audio_recording_thread, lines 221-222.
MicStart(t) ==
    /\ mic_pc[t] = "spawned"
    /\ mic_pc' = [mic_pc EXCEPT ![t] = "loop"]
    /\ rec' = [rec EXCEPT !.mic_thread_live = TRUE, !.mic_data = <<>>]
    /\ rev' = RevOf("mic_start")
    /\ UNCHANGED <<writers, disk, cam_pc, cam_k, mic_k, rmpc, armed, alternating, Player>>

\* One pass of its loop with recording set, lines 223-226 (with recording
\* clear the pass only sleeps).
MicTick(t) ==
    /\ mic_pc[t] = "loop"
    /\ rec.playing
    /\ rec.recording
    /\ mic_k < MaxCapture
    /\ mic_k' = mic_k + 1
    /\ rec' = [rec EXCEPT !.mic_data = Append(@, mic_k + 1)]
    /\ armed' = [armed EXCEPT !.chunks = Append(@, mic_k + 1)]
    /\ rev' = RevOf("mic_read")
    /\ UNCHANGED <<writers, disk, cam_pc, mic_pc, cam_k, rmpc, alternating, Player>>

\* SavedAudio that writes the file also when the buffer is empty.
SavedAudioAlways(files, data) == [files EXCEPT !.audio = data]

\* Lines 233-234: a non-empty buffer is written to the file at audio_output.
SavedAudio(files, data) ==
    IF data = <<>> THEN files ELSE [files EXCEPT !.audio = data]

\* After the loop, lines 233-236: a non-empty buffer is written to the file
\* at audio_output, the microphone is closed, the live flag is cleared.
MicExit(t) ==
    /\ mic_pc[t] = "loop"
    /\ ~rec.playing
    /\ disk' = SavedAudio(disk, rec.mic_data)
    /\ rec' = [rec EXCEPT !.mic_thread_live = FALSE]
    /\ mic_pc' = [mic_pc EXCEPT ![t] = "done"]
    /\ rev' = [RevOf(IF rec.mic_data = <<>> THEN "mic_exit" ELSE "save_audio")
                   EXCEPT !.pre = disk]
    /\ UNCHANGED <<writers, cam_pc, cam_k, mic_k, rmpc, armed, alternating, Player>>

\* merge_sources() is called and reaches its wait loop, line 307.
MergeSources ==
    /\ rmpc = "idle"
    /\ rmpc' = "merge_wait"
    /\ rev' = RevOf("merge_wait")
    /\ UNCHANGED <<rec, writers, disk, cam_pc, mic_pc, cam_k, mic_k, armed, alternating, Player>>

\* How a run of the transcoder ends: it succeeds, the executable is missing
\* (FFExecutableNotFoundError), it exits non-zero (FFRuntimeError), or
\* something else is raised.  It cannot succeed without both inputs.
TranscoderOutcomes(files) ==
    {"missing", "nonzero", "error"}
        \cup (IF files.video # NoFile /\ files.audio # NoFile THEN {"ok"} ELSE {})

\* How the two os.remove calls of lines 317-318 end: both succeed, the
\* first raises, or the second raises after the first has succeeded.
RemoveOutcomes == {"removed", "video_fails", "audio_fails"}

\* The files after lines 316-318.
AfterRemove(files, rm) ==
    CASE rm = "removed" -> NoFiles
      [] rm = "video_fails" -> files
      [] rm = "audio_fails" -> [files EXCEPT !.video = NoFile]

\* What merge_sources returns, lines 315-328: an exception of ff.run() or
\* of os.remove ends in one of the three handlers.
MergeReturns(ran, delete_file, rm) == ran = "ok" /\ (delete_file => rm = "removed")

\* merge_sources() from the end of its wait loop to its return, lines
\* 307-328.
MergeRun(ran, delete_file, rm) ==
    /\ rmpc = "merge_wait"
    /\ ~rec.mic_thread_live
    /\ ~rec.cam_thread_live
    /\ ran \in TranscoderOutcomes(disk)
    /\ disk' = IF ran = "ok" /\ delete_file THEN AfterRemove(disk, rm) ELSE disk
    /\ rmpc' = "idle"
    /\ rev' = [kind |-> "merge_sources", ran |-> ran,
               ret |-> MergeReturns(ran, delete_file, rm), del |-> delete_file,
               pre |-> disk]
    /\ UNCHANGED <<rec, writers, cam_pc, mic_pc, cam_k, mic_k, armed, alternating, Player>>

RecorderNext ==
    \/ StartPlayback
    \/ StopPlayback
    \/ StartRecording
    \/ StopRecording
    \/ \E t \in Slots : CamStart(t)
    \/ \E t \in Slots : CamTick(t)
    \/ \E t \in Slots, kind \in {"transient", "disconnected"} : CamReadError(t, kind)
    \/ \E t \in Slots : CamExit(t)
    \/ \E t \in Slots : MicStart(t)
    \/ \E t \in Slots : MicTick(t)
    \/ \E t \in Slots : MicExit(t)
    \/ MergeSources
    \/ \E ran \in {"ok", "missing", "nonzero", "error"}, delete_file \in BOOLEAN,
          rm \in RemoveOutcomes : MergeRun(ran, delete_file, rm)

\* A VideoRecorder, next to a player that is left alone.
InitRecorder == Init /\ ~audio_loaded /\ slider = "TickScale"

SpecRecorder == InitRecorder /\ [][RecorderNext]_vars

\* A VideoRecorder whose start_playback() and stop_playback() are called at
\* any moment, also while capture threads of an earlier session exist.
RestartNext ==
    \/ StartPlaybackAnytime
    \/ StopPlayback
    \/ StartRecording
    \/ StopRecording
    \/ \E t \in Slots : CamStart(t)
    \/ \E t \in Slots : CamTick(t)
    \/ \E t \in Slots : CamExit(t)
    \/ \E t \in Slots : MicStart(t)
    \/ \E t \in Slots : MicTick(t)
    \/ \E t \in Slots : MicExit(t)

SpecRestart == InitRecorder /\ [][RestartNext]_vars

\* Lines 264-270: the teardown of a video capture thread raises, in
\* writer.close() (line 265) or, the writer closed, in cam.close() (line
\* 266). The handler of lines 268-270 prints and returns: line 267 is
\* skipped and cam_thread_live stays as line 248 set it.
CamExitFails(t, at) ==
    /\ cam_pc[t] = "loop"
    /\ ~rec.playing
    /\ at = "writer_close" => rec.writer # None
    /\ writers' = IF at = "writer_close" \/ rec.writer = None THEN writers
                  ELSE [writers EXCEPT ![rec.writer] = "closed"]
    /\ cam_pc' = [cam_pc EXCEPT ![t] = "done"]
    /\ rev' = RevOf("cam_exit_failed")
    /\ UNCHANGED <<rec, disk, mic_pc, cam_k, mic_k, rmpc, armed, alternating, Player>>

\* Lines 233-239: the teardown of an audio capture thread raises, in
\* __save_audio_file (line 234, nothing written) or, the file written, in
\* __close_mic_recorder (line 235). The handler of lines 237-239 prints and
\* returns: line 236 is skipped and mic_thread_live stays as line 221 set
\* it.
MicExitFails(t, at) ==
    /\ mic_pc[t] = "loop"
    /\ ~rec.playing
    /\ at = "save_audio" => rec.mic_data # <<>>
    /\ disk' = IF at = "save_audio" THEN disk ELSE SavedAudio(disk, rec.mic_data)
    /\ mic_pc' = [mic_pc EXCEPT ![t] = "done"]
    /\ rev' = [RevOf("mic_exit_failed") EXCEPT !.pre = disk]
    /\ UNCHANGED <<rec, writers, cam_pc, cam_k, mic_k, rmpc, armed, alternating, Player>>

\* A VideoRecorder whose capture threads may fail in their teardown.
TeardownNext ==
    \/ RecorderNext
    \/ \E t \in Slots, at \in {"writer_close", "cam_close"} : CamExitFails(t, at)
    \/ \E t \in Slots, at \in {"save_audio", "close_mic"} : MicExitFails(t, at)

\* The capture threads are daemon threads the interpreter keeps scheduling
\* and merge_sources() polls every 10 ms: a thread that can start does, a
\* thread whose loop test fails leaves the loop, one way or the other, and a
\* merge_sources() whose wait is over goes on.
TeardownFairness ==
    /\ WF_vars(\E t \in Slots : CamStart(t))
    /\ WF_vars(\E t \in Slots : MicStart(t))
    /\ WF_vars(\E t \in Slots :
                   CamExit(t) \/ \E at \in {"writer_close", "cam_close"} : CamExitFails(t, at))
    /\ WF_vars(\E t \in Slots :
                   MicExit(t) \/ \E at \in {"save_audio", "close_mic"} : MicExitFails(t, at))
    /\ WF_vars(\E ran \in {"ok", "missing", "nonzero", "error"}, delete_file \in BOOLEAN,
                   rm \in RemoveOutcomes : MergeRun(ran, delete_file, rm))

SpecTeardown == InitRecorder /\ [][TeardownNext]_vars /\ TeardownFairness

\* ================================================================ claims
Min(a, b) == IF a < b THEN a ELSE b
Max(a, b) == IF a > b THEN a ELSE b

\* The next pass of thread t's loop executes im = self.frames[i] (line 875).
ReadsFrame(t) ==
    vpc[t] = "loop" /\ vi[t] < nframes /\ playing /\ vi[t] < load_frame_index

\* C1 (as claimed): once stop_playing() has returned and until the next
\* play(), playing is false and no display-advance loop and no audio-emit
\* loop of an earlier play() is running its loop.
C1_StopLeavesNoLoop ==
    stopped => /\ ~playing
               /\ \A t \in Slots : vpc[t] # "loop" /\ apc[t] # "loop"

\* C2 (as claimed): stop_playing() never waits on a flag that no thread is
\* left to clear: when every display-advance and audio-emit thread has
\* exited, video_thread_live and audio_thread_live are false, so the wait
\* loop of a pending stop_playing() ends.
C2_StopNeverStuck ==
    (mpc = "stop_wait" /\ \A t \in Slots : vpc[t] = "free" /\ apc[t] = "free")
        => ~(audio_thread_live \/ video_thread_live)

\* C3 (as claimed): in every reachable state
\* 0 <= current_frame <= load_frame_index.
C3_PositionInLoadedRange ==
    0 <= current_frame /\ current_frame <= load_frame_index

\* C4 (as claimed): every access frames[i] of the display-advance loop has
\* 0 <= i < len(frames).
C4_ReadsLoadedFrame ==
    \A t \in Slots : ReadsFrame(t) => 0 <= vi[t] /\ vi[t] < Len(frames)

\* C5 (as claimed): after set_clip(start, end) and play(), with the clip
\* start already loaded and no seek in between, every frame the
\* display-advance loop renders has an index i with start <= i < end: the
\* frame with index end is never rendered.
C5_RendersInsideClip ==
    (ev.kind = "frame_read" /\ ~ev.raised /\ clipAtPlay)
        => start_frame <= current_frame /\ current_frame < clip_frame

\* The whole video is loaded, the label shows its last frame and the
\* position is the one that put it there: nframes - 1 when the display loop
\* rendered it, nframes when load_frame(nframes) (the slider's maximum) did.
AtLastFrame(pos) ==
    /\ load_frame_index = nframes
    /\ shown = nframes - 1
    /\ pos \in {nframes - 1, nframes}

\* C6 (as claimed): play() called with the position at the last frame
\* leaves the position at 0, or at the clip start when a clip range is set.
C6_PlayAtEndRestarts ==
    (ev.kind = "play" /\ AtLastFrame(ev.p))
        => current_frame = IF start_frame # None THEN start_frame ELSE 0

\* C7: skip_video_forward() called while the player is stopped, from a
\* position p and with at least one frame published, returns without
\* raising and sets the position to min(p + skip_size x fps, highest loaded
\* index), the highest loaded index being load_frame_index - 1.
C7_SkipForwardExact ==
    (ev.kind = "skip_forward" /\ ~playing /\ load_frame_index >= 1)
        => /\ ~ev.raised
           /\ current_frame = Min(ev.p + SkipFrames, load_frame_index - 1)

\* A stopped player at position 0 with more than skip_size x fps frames
\* published has skipped forward to position skip_size x fps.
C7_Witness ==
    /\ ev.kind = "skip_forward" /\ ~ev.raised /\ ~playing
    /\ ev.p = 0
    /\ load_frame_index > SkipFrames
    /\ current_frame = SkipFrames

C9_SkipWhilePlayingPending ==
    /\ (ev.kind = "skip_forward" /\ playing) => skip_forward
    /\ (ev.kind = "skip_backward" /\ playing) => skip_backward

\* C10 (as claimed): load_frame(n) called while the player is stopped, for
\* a target n other than the current position and with a frame published,
\* leaves the label showing the frame of the resulting position,
\* frames[current_frame] as the display-advance loop numbers them.
C10_LoadFrameShowsPosition ==
    (ev.kind = "load_frame" /\ ~playing /\ ~ev.raised /\ ev.n # ev.p
        /\ load_frame_index >= 1)
        => shown = current_frame

\* C11 (as claimed): load_frame(n) called for a loaded frame n while the
\* display-advance loop is playing does not jump: it leaves the playback
\* position as it was.
C11_LoadFrameWhilePlayingDefers ==
    (ev.kind = "load_frame" /\ playing /\ ~ev.raised
        /\ 1 <= ev.n /\ ev.n <= load_frame_index
        /\ \E t \in Slots : vpc[t] = "loop")
        => current_frame = ev.p

\* C12 (as claimed): load_frame(n), skip_video_forward() and
\* skip_video_backward() never raise to the caller, for every integer
\* target and every state of the Frame Store, the empty store included.
C12_SeeksNeverRaise ==
    ev.kind \in {"load_frame", "skip_forward", "skip_backward"} => ~ev.raised

\* C13 (as claimed): once the loading flag has been cleared from outside, by
\* close() or by the example's window-close handler, at any moment after
\* construction, the loader appends at most the frame it was decoding.
C13_CancelStopsLoader ==
    cancelAt # None => Len(frames) <= cancelAt + 1

\* C14 (as claimed): when the loader has ended without cancellation and
\* without a decode error, it has examined every image of the source, so
\* the store holds, in source order, every image that was not dropped as a
\* repetition; whatever the kind of the slider.
C14_LoaderStoresWholeSource ==
    (lpc = "done" /\ cancelAt = None /\ decode_error = "none")
        => /\ lk = NFrames
           /\ load_frame_index = Len(frames)
           /\ \A k \in 1..(Len(frames) - 1) : frames[k] < frames[k + 1]

\* C15 (as claimed): after a decode error, raised while converting a
\* decoded frame or by the decoder's iterator, the loader thread has exited
\* and its live flag is cleared.
C15_DecodeErrorEndsLoader ==
    decode_error # "none" => lpc = "done" /\ ~load_video_thread_live

\* No audio loader and no audio-emit thread exists or has run.
NoAudioActivity ==
    /\ alpc = "done"
    /\ \A t \in Slots : apc[t] = "free"
    /\ ~audio_thread_live
    /\ audio_data = None
    /\ audio_index = 0

\* C16 (as claimed): with a source without audio track no audio loader and
\* no audio-emit thread is ever started and the audio index never changes,
\* and stop_playing() returns: it is never left waiting on a live flag when
\* no display-advance thread is there to clear it.
C16_NoAudioPlayerWorks ==
    ~audio_loaded
        => /\ NoAudioActivity
           /\ (mpc = "stop_wait" /\ \A t \in Slots : vpc[t] = "free")
                  => ~video_thread_live

\* C17 (as claimed): the chunks an audio-emit loop writes in its session are
\* consecutive: each write is the chunk after the one the loop wrote before.
C17_SessionChunksConsecutive ==
    (ev.kind = "audio_write" /\ ev.p # None) => ev.n = ev.p + 1

\* C18: in a capture session that began with recording clear and in which
\* every start_recording() armed a disarmed recorder, the video sink holds,
\* after each frame appended to it, exactly the frames captured while
\* recording was set, in capture order; and the audio sink, once it is
\* written, holds exactly the chunks captured while recording was set.
C18_SinksHoldArmedCaptures ==
    /\ (rev.kind = "append_data" /\ alternating) => disk.video = armed.frames
    /\ (rev.kind = "save_audio" /\ alternating) => disk.audio = armed.chunks

\* The writer the recorder holds, if it holds one, has been closed.
SinkClosed == rec.writer # None => writers[rec.writer] = "closed"

\* The buffered chunks, if there are any, are in the file at audio_output.
AudioWritten == rec.mic_data # <<>> => disk.audio = rec.mic_data

\* C19: once start_playback() has been called, merge_sources() runs the
\* transcoder only when the video capture loop and the audio capture loop
\* have finished their teardown, the video sink is closed and the buffered
\* audio has been written.
C19_MergeAfterTeardown ==
    (rev.kind = "merge_sources" /\ \E t \in Slots : cam_pc[t] # "free")
        => /\ CamRunning = {}
           /\ MicRunning = {}
           /\ SinkClosed
           /\ AudioWritten

\* C20: merge_sources() returns True exactly when the transcoder ran
\* successfully; when it returns False both raw files are as the call found
\* them; and the raw files change only when delete_file is true and the
\* transcoder ran successfully.
C20_MergeResultAndInputs ==
    rev.kind = "merge_sources"
        => /\ rev.ret <=> rev.ran = "ok"
           /\ ~rev.ret => disk = rev.pre
           /\ disk # rev.pre => (rev.del /\ rev.ran = "ok")

\* C21: the first frame rendered after pause_video() returned at position p
\* and play_video() was called is the frame at p, with or without a clip
\* range (p being a position before the last frame, the loader having
\* stored every frame and no other display-advance thread being left).
C21_ResumeAtPausedPosition ==
    (/\ ev.kind = "frame_read"
     /\ ~ev.raised
     /\ ev.p # None
     /\ ev.p # nframes - 1
     /\ load_frame_index = nframes)
        => ev.n = ev.p

\* C22: the published counter never exceeds the number of stored frames,
\* and no step lowers the counter or removes or replaces a stored frame.
C22_FrameStoreAppendOnly ==
    /\ [](load_frame_index <= Len(frames))
    /\ [][/\ load_frame_index' >= load_frame_index
          /\ Len(frames') >= Len(frames)
          /\ SubSeq(frames', 1, Len(frames)) = frames]_vars

\* The loader has published two frames or more and load_frame has just read
\* the store.
C22_Witness ==
    /\ load_frame_index >= 2
    /\ ev.kind = "load_frame"
    /\ ~ev.raised

\* The audio loader has ended without creating audio_data.
AudioExtractionFailed == audio_loaded /\ alpc = "done" /\ audio_data = None

\* C23: after the audio loader has failed to extract or open the track,
\* once no display-advance and no audio-emit thread is left neither live
\* flag is set, so that stop_playing() and pause_video() return.
C23_AudioFailureLeavesVideoWorking ==
    (AudioExtractionFailed /\ FreeV = Slots /\ FreeA = Slots)
        => (~video_thread_live /\ ~audio_thread_live)

\* C24: after stop_playback(), once the capture threads of the session have
\* finished their teardown, no writer that start_recording() opened is open.
C24_NoWriterLeftOpen ==
    (/\ ~rec.playing
     /\ \E t \in Slots : cam_pc[t] = "done"
     /\ CamRunning = {}
     /\ MicRunning = {})
        => \A w \in 1..Len(writers) : writers[w] = "closed"

\* C25: after a terminal error in a pass of the video capture loop (an
\* append that the sink refused, a camera that is gone) that loop has been
\* left; a loop that is still running after an error had a transient one.
C25_TerminalErrorEndsLoop ==
    rev.kind \in {"append_failed", "cam_disconnected"}
        => \A t \in Slots : cam_pc[t] # "loop"

\* C26: no pass of a video capture loop appends a frame to a writer that has
\* been closed.
C26_NoAppendToClosedWriter == rev.kind # "append_failed"

\* C27: at most one video capture loop and at most one audio capture loop
\* of a recorder is running.
C27_OneCaptureLoopEach ==
    /\ Cardinality({t \in Slots : cam_pc[t] = "loop"}) <= 1
    /\ Cardinality({t \in Slots : mic_pc[t] = "loop"}) <= 1

\* C28: a chunk is added to mic_data only with recording set; an audio
\* capture loop that ends with a non-empty buffer leaves exactly the
\* buffered chunks, in their order, in the audio file; one that ends with an
\* empty buffer leaves the files as they were.
C28_AudioBufferFlushed ==
    /\ rev.kind = "mic_read" => (rec.recording /\ rec.mic_data # <<>>)
    /\ rev.kind = "save_audio" => (rec.mic_data # <<>> /\ disk.audio = rec.mic_data)
    /\ rev.kind = "mic_exit" => (rec.mic_data = <<>> /\ disk = rev.pre)

\* An audio capture loop has ended with every chunk of the microphone in
\* its buffer and has written them.
C28_Witness ==
    /\ rev.kind = "save_audio"
    /\ Len(rec.mic_data) = MaxCapture
    /\ disk.audio = rec.mic_data

\* C29: when playing is clear, no display-advance thread exists, no live
\* flag was left set and no call is in progress, the button shows the play
\* image (the position being one of a stored frame).
C29_ButtonShowsPlayWhenStopped ==
    (/\ ~playing
     /\ ~video_thread_live
     /\ FreeV = Slots
     /\ mpc = "idle"
     /\ 0 <= current_frame
     /\ current_frame < Len(frames))
        => button = "play"

\* C30: once the loader has ended, a playback that was started with no clip
\* range eventually ends by itself: playing and video_thread_live are both
\* clear again, whatever number of frames the loader stored.
C30_PlaybackEndsByItself ==
    (playing /\ lpc = "done" /\ start_frame = None)
        ~> (~playing /\ ~video_thread_live)

\* C31: the trailing statements of a display-advance loop (lines 913-918)
\* never clear playing while the thread of a later session is in its loop.
C31_StoppedLoopLeavesNextSession ==
    [][\A t \in Slots :
          (/\ PlayingEpilogue(t)
           /\ \E u \in Slots \ {t} : vpc[u] = "loop")
              => playing' = playing]_vars

\* C32: whenever the player is stopped with no thread and no call in
\* progress, something is on the label and the position is that of a
\* published frame, the label shows frames[current_frame].
C32_LabelShowsPositionWhenStopped ==
    (/\ ~playing /\ ~video_thread_live /\ FreeV = Slots /\ mpc = "idle"
     /\ shown # None
     /\ 0 <= current_frame /\ current_frame < load_frame_index)
        => shown = current_frame

\* C33: a merge_sources() that waits with playing cleared by
\* stop_playback() eventually returns, unless playback is started again.
C33_MergeReturnsAfterStop ==
    (rmpc = "merge_wait" /\ ~rec.playing) ~> (rmpc = "idle" \/ rec.playing)

\* C34: once close() has been called, no step adds a chunk to the list the
\* audio loader has created.
C34_CloseStopsAudioLoader ==
    [][(cancelAt # None /\ audio_data # None) => audio_data' = audio_data]_vars

====
